---- MODULE Spec2Model ----
(***************************************************************************)
(* Model of the two Streamlit front-ends of the repository:                *)
(*   src/app.py                 Parcel Tracking System (three forms)       *)
(*   src/dhl_logistics_app.py   DHL Logistics Dashboard (six pages)        *)
(* A state is one browser session of one of the two programs.  Streamlit   *)
(* re-executes the whole script on every submit, click or widget change,   *)
(* so what is displayed is the output of the last script run.  The remote  *)
(* API is the environment: every response is a nondeterministic choice.    *)
(* Text that the code inspects character by character (status strings,     *)
(* search terms, names) is a sequence of one-character strings.            *)
(***************************************************************************)
EXTENDS Integers, Sequences, FiniteSets, TLC

VARIABLES
    app,           \* which of the two programs the session runs
    pc,            \* position of the script: "idle", "run" (a run is due) or
                   \* the HTTP call it is blocked in
    req,           \* the request in flight, <<>> when there is none
    last,          \* request and response of the form call that just ended
    net,           \* requests sent since the last user interaction
    page,          \* page chosen in the sidebar radio (dashboard program)
    search_term,   \* value of the search text input of the page
    fetched,       \* what the fetches of this run returned to the page, in order
    clicked,       \* this run was started by the Update Shipment button
    trigger,       \* the widget whose use started the script run, "" for the
                   \* first run of the session
    messages,      \* st.error / st.success boxes shown, in order
    card,          \* the record shown in the detail card or update form
    status_class,  \* CSS class of the status badge
    tables,        \* st.dataframe outputs, in order
    metrics,       \* metric cards, in order
    charts         \* st.plotly_chart outputs, in order

vars == <<app, pc, req, last, net, page, search_term, fetched, clicked,
          trigger, messages, card, status_class, tables, metrics, charts>>

(* ------------------------------ bounds ---------------------------------- *)

\* number of fragments concatenated into a composed status string
MaxFrags == 2
\* ids offered by the number inputs and used by the sample records
MaxId == 2
\* rows of a list the API returns
MaxRows == 2
\* characters of a search term
MaxTermLen == 1

(* ------------------------- text as characters --------------------------- *)

UpperCase == <<"A", "B", "C", "D", "E", "F", "G", "H", "I", "J", "K", "L", "M",
               "N", "O", "P", "Q", "R", "S", "T", "U", "V", "W", "X", "Y", "Z">>
LowerCase == <<"a", "b", "c", "d", "e", "f", "g", "h", "i", "j", "k", "l", "m",
               "n", "o", "p", "q", "r", "s", "t", "u", "v", "w", "x", "y", "z">>

\* str.lower() on one character
lower_char(c) ==
    IF \E i \in DOMAIN UpperCase : UpperCase[i] = c
    THEN LowerCase[CHOOSE i \in DOMAIN UpperCase : UpperCase[i] = c]
    ELSE c

\* str.lower()
lower(s) == [i \in 1..Len(s) |-> lower_char(s[i])]

\* Python's  sub in s
Contains(s, sub) ==
    \E i \in 0..(Len(s) - Len(sub)) : SubSeq(s, i + 1, i + Len(sub)) = sub

delivered == <<"d", "e", "l", "i", "v", "e", "r", "e", "d">>
transit == <<"t", "r", "a", "n", "s", "i", "t">>
none_str == <<"N", "o", "n", "e">>

(* --------------------------- JSON values -------------------------------- *)

\* a JSON string and JSON null, as the Status field of a parcel may hold them
JStr(s) == [t |-> "str", v |-> s]
JNull == [t |-> "null", v |-> <<>>]

\* Python's str(x)
PyStr(j) == IF j.t = "str" THEN j.v ELSE none_str

StatusSamples ==
    { <<"D", "e", "l", "i", "v", "e", "r", "e", "d">>,
      <<"d", "e", "l", "i", "v", "e", "r", "e", "d">>,
      <<"D", "E", "L", "I", "V", "E", "R", "E", "D">>,
      <<"I", "n", " ", "T", "r", "a", "n", "s", "i", "t">>,
      <<"o", "u", "t", " ", "f", "o", "r", " ", "t", "r", "a", "n", "s", "i", "t", " ", "h", "u", "b">>,
      <<"P", "r", "o", "c", "e", "s", "s", "i", "n", "g">>,
      <<>>,
      <<"u", "n", "k", "n", "o", "w", "n", "-", "x", "y", "z">>,
      <<"D", "e", "l", "i", "v", "e", "r", "e", "d", " ", "t", "o", " ", "t", "r", "a", "n", "s", "i", "t", " ", "h", "u", "b">> }

StatusFragments ==
    { <<"D", "e", "l", "i", "v", "e", "r", "e", "d">>,
      <<"t", "r", "a", "n", "s", "i", "t">>,
      <<" ">>,
      <<"I", "n">> }

RECURSIVE Composed(_)
\* every concatenation of at most n fragments
Composed(n) ==
    IF n = 0 THEN { <<>> }
    ELSE Composed(n - 1) \cup
         { s \o f : s \in Composed(n - 1), f \in StatusFragments }

\* the status strings the API may return
StatusStrings == StatusSamples \cup Composed(MaxFrags)

\* the values the Status field of a parcel may hold
StatusValues == { JStr(s) : s \in StatusStrings } \cup { JNull }

(* --------------------------- HTTP exchange ------------------------------ *)

\* status codes the API may answer with
Codes == { 200, 201, 400, 404, 500 }

Details == { "bad input", "Parcel not found" }

\* A response body.  shape: "entity" = JSON holding the data asked for,
\* "object" = another JSON object (an error body, with or without a detail
\* field), "nonobject" = JSON that is no object where one is expected,
\* "notjson" = a body that is no JSON at all (empty, HTML).
Body(shape, hasDetail, detail, value) ==
    [shape |-> shape, hasDetail |-> hasDetail, detail |-> detail, value |-> value]

Bodies(values, empty) ==
    { Body("entity", FALSE, "", v) : v \in values }
    \cup { Body("object", TRUE, d, empty) : d \in Details }
    \cup { Body("object", FALSE, "", empty),
           Body("nonobject", FALSE, "", empty),
           Body("notjson", FALSE, "", empty) }

\* transport = TRUE: no response at all (connection refused, timeout, DNS)
Responses(values, empty) ==
    { [transport |-> TRUE, code |-> 0, body |-> Body("notjson", FALSE, "", empty)] }
    \cup { [transport |-> FALSE, code |-> c, body |-> b] :
             c \in Codes, b \in Bodies(values, empty) }

Request(method, path, id, body) ==
    [method |-> method, path |-> path, id |-> id, body |-> body]

\* an entry of the log of requests sent
Sent(r) == [method |-> r.method, path |-> r.path]

(* ------------------------------ display --------------------------------- *)

Error(text) == [kind |-> "error", text |-> text]
Success(text) == [kind |-> "success", text |-> text]
\* an exception no handler catches: Streamlit shows it and stops the run
Uncaught(name) == [kind |-> "exception", text |-> <<name>>]

(* ======================= src/app.py ===================================== *)

View(msgs, c, sc) == [messages |-> msgs, card |-> c, status_class |-> sc]

\* the classes of the style sheet that a status badge may carry
StatusClasses == { "status-delivered", "status-transit", "status-processing" }

\* status_class_of with the delivered check comparing without .lower()
status_class_of_case_sensitive(Status) ==
    IF PyStr(Status) = delivered THEN "status-delivered"
    ELSE IF Status.t # "str" THEN "AttributeError"
    ELSE IF Contains(lower(Status.v), transit) THEN "status-transit"
    ELSE "status-processing"

\* status_class_of without the initial  status_class = "status-processing"
status_class_of_no_default(Status) ==
    IF lower(PyStr(Status)) = delivered THEN "status-delivered"
    ELSE IF Status.t # "str" THEN "AttributeError"
    ELSE IF Contains(lower(Status.v), transit) THEN "status-transit"
    ELSE "NameError"

\* status_class_of with the delivered check a substring test
status_class_of_delivered_substring(Status) ==
    IF Contains(lower(PyStr(Status)), delivered) THEN "status-delivered"
    ELSE IF Status.t # "str" THEN "AttributeError"
    ELSE IF Contains(lower(Status.v), transit) THEN "status-transit"
    ELSE "status-processing"

\* status_class_of with the delivered check a startswith test
status_class_of_delivered_prefix(Status) ==
    IF /\ Len(PyStr(Status)) >= Len(delivered)
       /\ SubSeq(lower(PyStr(Status)), 1, Len(delivered)) = delivered
    THEN "status-delivered"
    ELSE IF Status.t # "str" THEN "AttributeError"
    ELSE IF Contains(lower(Status.v), transit) THEN "status-transit"
    ELSE "status-processing"

\* the CSS class of the status badge, or the exception raised on the way
status_class_of(Status) ==
    IF lower(PyStr(Status)) = delivered THEN "status-delivered"
    ELSE IF Status.t # "str" THEN "AttributeError"
    ELSE IF Contains(lower(Status.v), transit) THEN "status-transit"
    ELSE "status-processing"

\* except requests.exceptions.RequestException as e
connection_error(e) == Error(<<"Connection error: ", e>>)

\* st.error(f"Error: {response.json().get('detail', 'Unknown error')}")
error_detail(response) ==
    IF response.body.shape = "notjson"
    THEN connection_error("JSONDecodeError")
    ELSE IF response.body.shape = "nonobject"
    THEN Uncaught("AttributeError")
    ELSE Error(<<"Error: ",
                 IF response.body.hasDetail THEN response.body.detail
                 ELSE "Unknown error">>)

\* customer_lookup without its 404 branch
customer_lookup_no_404(response) ==
    IF response.transport
    THEN View(<<connection_error("ConnectionError")>>, <<>>, "")
    ELSE IF response.code = 200
    THEN IF response.body.shape = "notjson"
         THEN View(<<connection_error("JSONDecodeError")>>, <<>>, "")
         ELSE IF response.body.shape = "nonobject"
         THEN View(<<Uncaught("TypeError")>>, <<>>, "")
         ELSE IF response.body.shape = "object"
         THEN View(<<Uncaught("KeyError")>>, <<>>, "")
         ELSE View(<<>>, <<response.body.value>>, "")
    ELSE View(<<error_detail(response)>>, <<>>, "")

\* the body of  if submit_customer:
customer_lookup(response) ==
    IF response.transport
    THEN View(<<connection_error("ConnectionError")>>, <<>>, "")
    ELSE IF response.code = 200
    THEN IF response.body.shape = "notjson"
         THEN View(<<connection_error("JSONDecodeError")>>, <<>>, "")
         ELSE IF response.body.shape = "nonobject"
         THEN View(<<Uncaught("TypeError")>>, <<>>, "")
         ELSE IF response.body.shape = "object"
         THEN View(<<Uncaught("KeyError")>>, <<>>, "")
         ELSE View(<<>>, <<response.body.value>>, "")
    ELSE IF response.code = 404
    THEN View(<<Error(<<"Customer not found">>)>>, <<>>, "")
    ELSE View(<<error_detail(response)>>, <<>>, "")

\* the body of  if submit_parcel:
parcel_tracking(response) ==
    IF response.transport
    THEN View(<<connection_error("ConnectionError")>>, <<>>, "")
    ELSE IF response.code = 200
    THEN IF response.body.shape = "notjson"
         THEN View(<<connection_error("JSONDecodeError")>>, <<>>, "")
         ELSE IF response.body.shape = "nonobject"
         THEN View(<<Uncaught("TypeError")>>, <<>>, "")
         ELSE IF response.body.shape = "object"
         THEN View(<<Uncaught("KeyError")>>, <<>>, "")
         ELSE LET parcel == response.body.value
                  cls == status_class_of(parcel.Status)
              IN  IF cls \notin StatusClasses
                  THEN View(<<Uncaught(cls)>>, <<>>, "")
                  ELSE View(<<>>, <<parcel>>, cls)
    ELSE IF response.code = 404
    THEN View(<<Error(<<"Parcel not found">>)>>, <<>>, "")
    ELSE View(<<error_detail(response)>>, <<>>, "")

\* the body of  if submit_status:
update_status(response) ==
    IF response.transport
    THEN View(<<connection_error("ConnectionError")>>, <<>>, "")
    ELSE IF response.code = 200
    THEN View(<<Success(<<"Status updated successfully">>)>>, <<>>, "")
    ELSE View(<<error_detail(response)>>, <<>>, "")

\* the options of the Status selectbox of the status_form
StatusOptions ==
    { "Processing", "In Transit", "Out for Delivery", "Delivered",
      "Failed Delivery", "Returned" }

Customers ==
    { [CustomerID |-> i, Name |-> n, Address |-> "1 Main St"] :
        i \in 1..MaxId, n \in { "Ann", "Bob" } }

Parcels(id) ==
    { [ParcelID |-> id, CustomerID |-> c, Status |-> s] :
        c \in 1..MaxId, s \in StatusValues }

NoCustomer == [CustomerID |-> 0, Name |-> "", Address |-> ""]
NoParcel == [ParcelID |-> 0, CustomerID |-> 0, Status |-> JNull]
NoValue == <<>>

\* a form is submitted: the script reruns and blocks in the HTTP call
Submit(r) ==
    /\ pc = "idle"
    /\ pc' = "submitting"
    /\ req' = <<r>>
    /\ last' = <<>>
    /\ net' = <<Sent(r)>>
    /\ messages' = <<>>
    /\ card' = <<>>
    /\ status_class' = ""
    /\ UNCHANGED <<app, page, search_term, fetched, clicked, tables, metrics, charts>>

\* the HTTP call of a form returns and the rest of its handler runs
Respond(response, view) ==
    /\ pc' = "idle"
    /\ last' = <<[req |-> req[1], response |-> response]>>
    /\ req' = <<>>
    /\ messages' = view.messages
    /\ card' = view.card
    /\ status_class' = view.status_class
    /\ UNCHANGED <<app, net, page, search_term, fetched, clicked, trigger, tables,
                   metrics, charts>>

SubmitCustomer ==
    /\ app = "app.py"
    /\ \E customer_id \in 1..MaxId :
         Submit(Request("GET", "/customers/{id}", customer_id, ""))
    /\ trigger' = "Look Up Customer"

SubmitParcel ==
    /\ app = "app.py"
    /\ \E parcel_id \in 1..MaxId :
         Submit(Request("GET", "/parcels/{id}", parcel_id, ""))
    /\ trigger' = "Track Parcel"

SubmitStatus ==
    /\ app = "app.py"
    /\ \E update_parcel_id \in 1..MaxId, status \in StatusOptions :
         Submit(Request("PUT", "/parcels/{id}/status", update_parcel_id, status))
    /\ trigger' = "Update Status"

CustomerResponse ==
    /\ app = "app.py" /\ pc = "submitting"
    /\ req[1].path = "/customers/{id}"
    /\ \E response \in Responses(Customers, NoCustomer) :
         Respond(response, customer_lookup(response))

ParcelResponse ==
    /\ app = "app.py" /\ pc = "submitting"
    /\ req[1].path = "/parcels/{id}"
    /\ \E response \in Responses(Parcels(req[1].id), NoParcel) :
         Respond(response, parcel_tracking(response))

StatusResponse ==
    /\ app = "app.py" /\ pc = "submitting"
    /\ req[1].path = "/parcels/{id}/status"
    /\ \E response \in Responses({ NoValue }, NoValue) :
         Respond(response, update_status(response))

(* ==================== src/dhl_logistics_app.py ========================== *)

\* the options of the sidebar radio
Pages ==
    { "Dashboard", "Shipments", "Customers", "Parcels", "Analytics",
      "Route Visualization" }

\* the options of the New Status selectbox
NewStatusOptions == { "In Transit", "Delivered", "Delayed", "Processing" }

\* status codes for which raise_for_status() raises
IsHTTPError(code) == code >= 400 /\ code < 600

\* str(e) of the HTTPError that raise_for_status() raises
HTTPErrorText(code) ==
    CASE code = 400 -> "400 Client Error: Bad Request"
      [] code = 404 -> "404 Client Error: Not Found"
      [] code = 500 -> "500 Server Error: Internal Server Error"
      [] OTHER -> "HTTPError"

\* What the API may answer to a call of the dashboard program.  A list or an
\* aggregate is a sequence of records (a JSON object is a sequence of one
\* record, {} and [] are the empty sequence).  A response below 400 carries
\* the data asked for or no JSON at all; a response from 400 on carries an
\* error body, which this program never reads.
DhlResponses(values) ==
    { [transport |-> TRUE, code |-> 0, body |-> Body("notjson", FALSE, "", <<>>)] }
    \cup { [transport |-> FALSE, code |-> c, body |-> b] :
             c \in { k \in Codes : ~IsHTTPError(k) },
             b \in { Body("entity", FALSE, "", v) : v \in values }
                   \cup { Body("notjson", FALSE, "", <<>>) } }
    \cup { [transport |-> FALSE, code |-> c, body |-> b] :
             c \in { k \in Codes : IsHTTPError(k) },
             b \in { Body("object", TRUE, "bad input", <<>>),
                     Body("notjson", FALSE, "", <<>>) } }

\* the RequestException a call ends in, "" when it ends in none
Raised(response, parses) ==
    IF response.transport THEN "ConnectionError"
    ELSE IF IsHTTPError(response.code) THEN HTTPErrorText(response.code)
    ELSE IF parses /\ response.body.shape = "notjson" THEN "JSONDecodeError"
    ELSE ""

\* fetch_api_data: the parsed body, or None and an error box
fetch_api_data(endpoint, response) ==
    LET e == Raised(response, TRUE)
    IN  IF e = ""
        THEN [endpoint |-> endpoint, none |-> FALSE, data |-> response.body.value,
              errors |-> <<>>]
        ELSE [endpoint |-> endpoint, none |-> TRUE, data |-> <<>>,
              errors |-> <<Error(<<"Error fetching data from API: ", e>>)>>]

\* update_shipment_status returning True from its except branch too
update_shipment_status_returns_true(response) ==
    LET e == Raised(response, FALSE)
    IN  [ok |-> TRUE,
         errors |-> IF e = "" THEN <<>>
                    ELSE <<Error(<<"Error updating shipment: ", e>>)>>]

\* update_shipment_status: True, or False and an error box
update_shipment_status(response) ==
    LET e == Raised(response, FALSE)
    IN  IF e = ""
        THEN [ok |-> TRUE, errors |-> <<>>]
        ELSE [ok |-> FALSE,
              errors |-> <<Error(<<"Error updating shipment: ", e>>)>>]

\* Python's truth value of what fetch_api_data returned
Truthy(d) == ~d.none /\ Len(d.data) > 0

(* ------------------------------ search ---------------------------------- *)

\* characters a search term is typed from
TermChars == { "X", "n", ".", "(" }

RECURSIVE Terms(_)
Terms(n) ==
    IF n = 0 THEN { <<>> }
    ELSE Terms(n - 1) \cup { s \o <<c>> : s \in Terms(n - 1), c \in TermChars }

\* re.compile(pat) raises re.error: of the characters above only an
\* unclosed parenthesis makes a pattern invalid
regex_error(pat) == \E k \in 1..Len(pat) : pat[k] = "("

\* re.compile(pat, re.IGNORECASE).search(s) is not None, for a valid pattern
\* of literal characters and dots
regex_search(pat, s) ==
    \E i \in 0..(Len(s) - Len(pat)) :
        \A k \in 1..Len(pat) :
            \/ pat[k] = "."
            \/ lower_char(pat[k]) = lower_char(s[i + k])

\* Series.str.contains(pat, case=False), regex=True being the default
str_contains(s, pat) == regex_search(pat, s)

RECURSIVE SelectRows(_, _, _)
\* df[mask]: the rows whose entry of the boolean mask is True, in their order
SelectRows(rows, mask, i) ==
    IF i > Len(rows) THEN <<>>
    ELSE (IF mask[i] THEN <<rows[i]>> ELSE <<>>) \o SelectRows(rows, mask, i + 1)

\* the Shipments page filter
filter_shipments(df_shipments, term) ==
    IF term = <<>> THEN df_shipments
    ELSE LET mask == [i \in 1..Len(df_shipments) |->
                        \/ str_contains(df_shipments[i].ShipmentName, term)
                        \/ str_contains(df_shipments[i].CustomerName, term)]
         IN  SelectRows(df_shipments, mask, 1)

\* the Customers page filter
filter_customers(df_customers, term) ==
    IF term = <<>> THEN df_customers
    ELSE LET mask == [i \in 1..Len(df_customers) |->
                        \/ str_contains(df_customers[i].Name, term)
                        \/ str_contains(df_customers[i].Email, term)]
         IN  SelectRows(df_customers, mask, 1)

\* the Parcels page filters
filter_parcels(df_parcels, term, type_filter) ==
    LET byName ==
            IF term = <<>> THEN df_parcels
            ELSE SelectRows(df_parcels,
                            [i \in 1..Len(df_parcels) |->
                                str_contains(df_parcels[i].ParcelName, term)], 1)
    IN  IF type_filter = "All" THEN byName
        ELSE SelectRows(byName,
                        [i \in 1..Len(byName) |-> byName[i].Type = type_filter], 1)

(* --------------------------- sample data -------------------------------- *)

RECURSIVE Lists(_, _)
\* the lists of at most n records of a pool
Lists(pool, n) ==
    IF n = 0 THEN { <<>> }
    ELSE Lists(pool, n - 1)
         \cup { l \o <<r>> : l \in Lists(pool, n - 1), r \in pool }

ShipmentPool ==
    { [ShipmentID |-> 1, ShipmentName |-> <<"a", ".", "b">>, ParcelName |-> "Books",
       CustomerName |-> <<"A", "n", "n">>, Status |-> "In Transit",
       CurrentLocation |-> "Bonn"],
      [ShipmentID |-> 2, ShipmentName |-> <<"A", "x", "B">>, ParcelName |-> "Lamp",
       CustomerName |-> <<"B", "o">>, Status |-> "Processing",
       CurrentLocation |-> "Kiel"] }

CustomerPool ==
    { [CustomerID |-> 1, Name |-> <<"A", "n", "n">>, Email |-> <<"a", ".", "x">>,
       Phone |-> "1", Address |-> "1 Main St", Type |-> "Private"],
      [CustomerID |-> 2, Name |-> <<"B", "o">>, Email |-> <<"b", "@", "y">>,
       Phone |-> "2", Address |-> "2 Side St", Type |-> "Business"] }

ParcelPool ==
    { [ParcelID |-> 1, ParcelName |-> <<"b", "o", "x">>, Type |-> "Small", Weight |-> 2],
      [ParcelID |-> 2, ParcelName |-> <<"N", ".", "1">>, Type |-> "Large", Weight |-> 9] }

AnalyticsPool ==
    { [ShipmentID |-> 1, Efficiency |-> 80, CustomerRating |-> 4, Delays |-> 1],
      [ShipmentID |-> 2, Efficiency |-> 85, CustomerRating |-> 5, Delays |-> 2] }

Summaries ==
    { <<>>,
      <<[total_shipments |-> 10, active_shipments |-> 4,
         delayed_shipments |-> 1, completed_shipments |-> 5]>> }

StatusCounts ==
    { <<>>,
      <<[status |-> "Delivered", count |-> 5], [status |-> "In Transit", count |-> 4]>> }

EfficiencyData ==
    { <<>>,
      <<[parcelType |-> "Small", averageEfficiency |-> 80, averageRating |-> 4]>>,
      <<[parcelType |-> "Small", averageEfficiency |-> 80, averageRating |-> 4],
        [parcelType |-> "Large", averageEfficiency |-> 65, averageRating |-> 3]>> }

ActiveRoutes ==
    { <<>>,
      <<[shipmentId |-> 1, shipmentName |-> "a.b", currentLocation |-> "Bonn",
         parcelType |-> "Small", weight |-> 2]>> }

Locations == { <<>>, <<"Bonn", "Kiel">> }

(* --------------------------- script runs -------------------------------- *)

Get(path, id) == Request("GET", path, id, "")

Metric(label, tenths, format) == [label |-> label, tenths |-> tenths, format |-> format]
Table(name, rows) == [name |-> name, rows |-> rows]
Chart(name, data) == [name |-> name, data |-> data]

\* the first fetch_api_data call of each page
FirstCall(p) ==
    CASE p = "Dashboard" -> [pc |-> "summary", path |-> "/dashboard/summary"]
      [] p = "Shipments" -> [pc |-> "tab1", path |-> "/shipments{status_param}"]
      [] p = "Customers" -> [pc |-> "customers", path |-> "/customers"]
      [] p = "Parcels" -> [pc |-> "parcels", path |-> "/parcels"]
      [] p = "Analytics" -> [pc |-> "analytics", path |-> "/analytics/shipments"]
      [] OTHER -> [pc |-> "active_routes", path |-> "/route/active-shipments"]

\* The script starts over for page p and blocks in its first fetch; what the
\* run before displayed is replaced by what this run displays.
StartRun(p, term, click, log) ==
    LET c == FirstCall(p)
    IN  /\ page' = p
        /\ search_term' = term
        /\ clicked' = click
        /\ pc' = c.pc
        /\ req' = <<Get(c.path, 0)>>
        /\ net' = Append(log, Sent(Get(c.path, 0)))
        /\ last' = <<>>
        /\ fetched' = <<>>
        /\ messages' = <<>>
        /\ card' = <<>>
        /\ status_class' = ""
        /\ tables' = <<>>
        /\ metrics' = <<>>
        /\ charts' = <<>>
        /\ UNCHANGED app

\* a fetch returned: the script goes on to its next fetch
Proceed(next, r, got) ==
    /\ pc' = next
    /\ fetched' = Append(fetched, got)
    /\ req' = <<r>>
    /\ net' = Append(net, Sent(r))
    /\ messages' = messages \o got.errors
    /\ UNCHANGED <<app, last, page, trigger>>

\* a fetch returned: the script runs to its end
Finish(got, uncaught) ==
    /\ pc' = "idle"
    /\ req' = <<>>
    /\ clicked' = FALSE
    /\ fetched' = Append(fetched, got)
    /\ messages' = messages \o got.errors \o uncaught
    /\ UNCHANGED <<app, last, net, page, trigger>>

(* ------------------------------ Dashboard ------------------------------- *)

\* the four metric cards of the Dashboard
summary_cards(summary) ==
    << Metric("Total Shipments", 10 * summary.total_shipments, "d"),
       Metric("Active Shipments", 10 * summary.active_shipments, "d"),
       Metric("Delayed Shipments", 10 * summary.delayed_shipments, "d"),
       Metric("Completed Shipments", 10 * summary.completed_shipments, "d") >>

DashboardSummary ==
    /\ app = "dhl" /\ pc = "summary"
    /\ \E response \in DhlResponses(Summaries) :
         LET summary == fetch_api_data(req[1].path, response)
         IN  IF Truthy(summary)
             THEN /\ Proceed("status_counts",
                             Get("/analytics/shipment-status-count", 0),
                             summary)
                  /\ metrics' = summary_cards(summary.data[1])
                  /\ UNCHANGED <<search_term, clicked, card,
                                 status_class, tables, charts>>
             ELSE /\ Finish(summary, <<>>)
                  /\ UNCHANGED <<search_term, card, status_class, tables,
                                 metrics, charts>>

DashboardStatusCounts ==
    /\ app = "dhl" /\ pc = "status_counts"
    /\ \E response \in DhlResponses(StatusCounts) :
         LET status_counts == fetch_api_data(req[1].path, response)
         IN  /\ Proceed("efficiency",
                        Get("/analytics/efficiency-by-parcel-type", 0),
                        status_counts)
             /\ charts' = IF Truthy(status_counts)
                          THEN Append(charts, Chart("pie", status_counts.data))
                          ELSE charts
             /\ UNCHANGED <<search_term, clicked, card, status_class,
                            tables, metrics>>

DashboardEfficiency ==
    /\ app = "dhl" /\ pc = "efficiency"
    /\ \E response \in DhlResponses(EfficiencyData) :
         LET efficiency_data == fetch_api_data(req[1].path, response)
         IN  /\ Proceed("recent", Get("/shipments?limit=5", 0),
                        efficiency_data)
             /\ charts' = IF Truthy(efficiency_data)
                          THEN Append(charts, Chart("bar", efficiency_data.data))
                          ELSE charts
             /\ UNCHANGED <<search_term, clicked, card, status_class,
                            tables, metrics>>

DashboardRecent ==
    /\ app = "dhl" /\ pc = "recent"
    /\ \E response \in DhlResponses(Lists(ShipmentPool, MaxRows)) :
         LET shipments == fetch_api_data(req[1].path, response)
         IN  /\ Finish(shipments, <<>>)
             /\ tables' = IF Truthy(shipments)
                          THEN Append(tables, Table("recent", shipments.data))
                          ELSE tables
             /\ UNCHANGED <<search_term, card, status_class, metrics, charts>>

(* ------------------------------ Shipments ------------------------------- *)

ShipmentsTab1 ==
    /\ app = "dhl" /\ pc = "tab1"
    /\ \E response \in DhlResponses(Lists(ShipmentPool, MaxRows)) :
         LET shipments == fetch_api_data(req[1].path, response)
         IN  IF Truthy(shipments) /\ search_term # <<>> /\ regex_error(search_term)
             THEN /\ Finish(shipments, <<Uncaught("re.error")>>)
                  /\ UNCHANGED <<search_term, card, status_class, tables,
                                 metrics, charts>>
             ELSE /\ Proceed("tab2", Get("/shipments", 0), shipments)
                  /\ tables' =
                       IF Truthy(shipments)
                       THEN <<Table("shipments",
                                    filter_shipments(shipments.data, search_term))>>
                       ELSE tables
                  \* the text input is rendered only when there are shipments
                  /\ search_term' = IF Truthy(shipments) THEN search_term ELSE <<>>
                  /\ UNCHANGED <<clicked, card, status_class, metrics,
                                 charts>>

\* next((s for s in shipments if s['ShipmentID'] == shipment_id), None)
first_with_id(shipments, shipment_id) ==
    shipments[CHOOSE i \in 1..Len(shipments) :
                /\ shipments[i].ShipmentID = shipment_id
                /\ \A j \in 1..(i - 1) : shipments[j].ShipmentID # shipment_id]

ShipmentsTab2 ==
    /\ app = "dhl" /\ pc = "tab2"
    /\ \E response \in DhlResponses(Lists(ShipmentPool, MaxRows)) :
         LET shipments == fetch_api_data(req[1].path, response)
         IN  IF ~Truthy(shipments)
             THEN /\ Finish(shipments, <<>>)
                  /\ UNCHANGED <<search_term, card, status_class, tables,
                                 metrics, charts>>
             ELSE \E selected \in 1..Len(shipments.data) :
                  LET shipment_id == shipments.data[selected].ShipmentID
                      current_shipment == first_with_id(shipments.data, shipment_id)
                      \* of this list the page goes on with the selected shipment only
                      kept == [shipments EXCEPT !.data = <<current_shipment>>]
                  IN  /\ card' = <<current_shipment>>
                      /\ IF clicked
                         THEN \E new_status \in NewStatusOptions,
                                 new_location \in { current_shipment.CurrentLocation, "Hub" } :
                                /\ Proceed("put",
                                           Request("PUT", "/shipments/{id}", shipment_id,
                                                   [Status |-> new_status,
                                                    CurrentLocation |-> new_location]),
                                           kept)
                                /\ UNCHANGED clicked
                         ELSE Finish(kept, <<>>)
                      /\ UNCHANGED <<search_term, status_class, tables, metrics,
                                     charts>>

\* if update_shipment_status(...): st.success(...); st.rerun()
ShipmentPut ==
    /\ app = "dhl" /\ pc = "put"
    /\ \E response \in DhlResponses({ <<>> }) :
         LET updated == update_shipment_status(response)
         IN  /\ pc' = IF updated.ok THEN "run" ELSE "idle"
             /\ messages' = messages \o updated.errors \o
                   (IF updated.ok
                    THEN <<Success(<<"Shipment updated successfully!">>)>>
                    ELSE <<>>)
             /\ last' = <<[req |-> req[1], response |-> response]>>
             /\ req' = <<>>
             /\ clicked' = FALSE
             /\ UNCHANGED <<app, net, page, search_term, fetched, trigger, card,
                            status_class, tables, metrics, charts>>

\* st.rerun(), and the first run of a session
Rerun ==
    /\ app = "dhl" /\ pc = "run"
    /\ StartRun(page, search_term, FALSE, net)
    /\ UNCHANGED trigger

(* ------------------------------ Customers ------------------------------- *)

CustomersList ==
    /\ app = "dhl" /\ pc = "customers"
    /\ \E response \in DhlResponses(Lists(CustomerPool, MaxRows)) :
         LET customers == fetch_api_data(req[1].path, response)
         IN  IF ~Truthy(customers)
             THEN /\ Finish(customers, <<>>)
                  /\ search_term' = <<>>
                  /\ UNCHANGED <<card, status_class, tables, metrics, charts>>
             ELSE IF search_term # <<>> /\ regex_error(search_term)
             THEN /\ Finish(customers, <<Uncaught("re.error")>>)
                  /\ UNCHANGED <<search_term, card, status_class, tables,
                                 metrics, charts>>
             ELSE LET df_customers == filter_customers(customers.data, search_term)
                  IN  \* the selectbox holds None when it has no options
                      \E selected \in (IF df_customers = <<>> THEN { 0 }
                                       ELSE 1..Len(df_customers)) :
                        LET selected_customer_id ==
                              IF selected = 0 THEN 0
                              ELSE df_customers[selected].CustomerID
                        IN  /\ Proceed("customer_detail",
                                       Get("/customers/{id}", selected_customer_id),
                                       customers)
                            /\ tables' = <<Table("customers", df_customers)>>
                            /\ UNCHANGED <<search_term, clicked, card,
                                           status_class, metrics, charts>>

CustomerDetail ==
    /\ app = "dhl" /\ pc = "customer_detail"
    /\ \E response \in DhlResponses({ <<>> } \cup { <<c>> : c \in CustomerPool }) :
         LET customer_detail == fetch_api_data(req[1].path, response)
         IN  /\ Finish(customer_detail, <<>>)
             /\ card' = IF Truthy(customer_detail)
                        THEN <<customer_detail.data[1]>>
                        ELSE card
             /\ UNCHANGED <<search_term, status_class, tables, metrics, charts>>

(* ------------------------------- Parcels -------------------------------- *)

ParcelsList ==
    /\ app = "dhl" /\ pc = "parcels"
    /\ \E response \in DhlResponses(Lists(ParcelPool, MaxRows)) :
         LET parcels == fetch_api_data(req[1].path, response)
         IN  IF ~Truthy(parcels)
             THEN /\ Finish(parcels, <<>>)
                  /\ search_term' = <<>>
                  /\ UNCHANGED <<card, status_class, tables, metrics, charts>>
             ELSE IF search_term # <<>> /\ regex_error(search_term)
             THEN /\ Finish(parcels, <<Uncaught("re.error")>>)
                  /\ UNCHANGED <<search_term, card, status_class, tables,
                                 metrics, charts>>
             ELSE \E type_filter \in { "All" } \cup
                        { parcels.data[i].Type : i \in 1..Len(parcels.data) } :
                    /\ Finish(parcels, <<>>)
                    /\ tables' = <<[name |-> "parcels",
                                    rows |-> filter_parcels(parcels.data, search_term,
                                                            type_filter),
                                    type_filter |-> type_filter]>>
                    /\ charts' = <<Chart("histogram", parcels.data)>>
                    /\ UNCHANGED <<search_term, card, status_class, metrics>>

(* ------------------------------ Analytics ------------------------------- *)

RECURSIVE SumOf(_, _)
\* Series.sum() of a column
SumOf(column, i) ==
    IF i > Len(column) THEN 0 ELSE column[i] + SumOf(column, i + 1)

\* f"{total / count:.1f}", in tenths: the quotient rounded to one decimal,
\* a tie going to the even digit (exact for fewer than twenty rows)
format_1f(total, count) ==
    LET q == (10 * total) \div count
        r == (10 * total) % count
    IN  IF 2 * r < count THEN q
        ELSE IF 2 * r > count THEN q + 1
        ELSE IF q % 2 = 0 THEN q ELSE q + 1

\* analytics_cards showing the values of the first record instead of aggregates
analytics_cards_first_record(df_analytics) ==
    << Metric("Average Efficiency", 10 * df_analytics[1].Efficiency, ".1f%"),
       Metric("Average Customer Rating", 10 * df_analytics[1].CustomerRating, ".1f/5"),
       Metric("Total Delays", 10 * df_analytics[1].Delays, "d") >>

\* the three metric cards of the Analytics page
analytics_cards(df_analytics) ==
    LET n == Len(df_analytics)
        Efficiency == [i \in 1..n |-> df_analytics[i].Efficiency]
        CustomerRating == [i \in 1..n |-> df_analytics[i].CustomerRating]
        Delays == [i \in 1..n |-> df_analytics[i].Delays]
    IN  << Metric("Average Efficiency", format_1f(SumOf(Efficiency, 1), n), ".1f%"),
           Metric("Average Customer Rating",
                  format_1f(SumOf(CustomerRating, 1), n), ".1f/5"),
           Metric("Total Delays", 10 * SumOf(Delays, 1), "d") >>

\* the traces of the radar chart, one for each parcel type
radar_traces(df_efficiency) ==
    [i \in 1..Len(df_efficiency) |->
        [name |-> df_efficiency[i].parcelType,
         r |-> << df_efficiency[i].averageEfficiency,
                  df_efficiency[i].averageRating * 20,
                  100 - df_efficiency[i].averageEfficiency >>]]

AnalyticsShipments ==
    /\ app = "dhl" /\ pc = "analytics"
    /\ \E response \in DhlResponses(Lists(AnalyticsPool, MaxRows)) :
         LET analytics == fetch_api_data(req[1].path, response)
         IN  IF Truthy(analytics)
             THEN /\ Proceed("analytics_efficiency",
                             Get("/analytics/efficiency-by-parcel-type", 0),
                             analytics)
                  /\ metrics' = analytics_cards(analytics.data)
                  /\ charts' = <<Chart("scatter", analytics.data)>>
                  /\ UNCHANGED <<search_term, clicked, card,
                                 status_class, tables>>
             ELSE /\ Finish(analytics, <<>>)
                  /\ UNCHANGED <<search_term, card, status_class, tables,
                                 metrics, charts>>

AnalyticsEfficiency ==
    /\ app = "dhl" /\ pc = "analytics_efficiency"
    /\ \E response \in DhlResponses(EfficiencyData) :
         LET efficiency_data == fetch_api_data(req[1].path, response)
         IN  /\ Finish(efficiency_data, <<>>)
             /\ charts' = IF Truthy(efficiency_data)
                          THEN Append(charts, Chart("radar",
                                                    radar_traces(efficiency_data.data)))
                          ELSE charts
             /\ UNCHANGED <<search_term, card, status_class, tables, metrics>>

(* -------------------------- Route Visualization ------------------------- *)

RouteActive ==
    /\ app = "dhl" /\ pc = "active_routes"
    /\ \E response \in DhlResponses(ActiveRoutes) :
         LET active_routes == fetch_api_data(req[1].path, response)
         IN  /\ Proceed("locations", Get("/route/locations", 0),
                        active_routes)
             /\ UNCHANGED <<search_term, clicked, card, status_class, tables,
                            metrics, charts>>

RouteLocations ==
    /\ app = "dhl" /\ pc = "locations"
    /\ \E response \in DhlResponses(Locations) :
         LET active_routes == fetched[1]
             locations == fetch_api_data(req[1].path, response)
             both == Truthy(active_routes) /\ Truthy(locations)
         IN  /\ Finish(locations, <<>>)
             /\ charts' = IF both
                          THEN <<Chart("routes", active_routes.data)>>
                          ELSE charts
             /\ tables' = IF both
                          THEN <<Table("active", active_routes.data)>>
                          ELSE tables
             /\ UNCHANGED <<search_term, card, status_class, metrics>>

(* --------------------------- user interaction --------------------------- *)

SelectPage ==
    /\ app = "dhl" /\ pc = "idle"
    /\ \E p \in Pages \ { page } : StartRun(p, <<>>, FALSE, <<>>)
    /\ trigger' = "radio"

\* the pages with a search text input, which is rendered once the list is
SearchRendered ==
    /\ page \in { "Shipments", "Customers", "Parcels" }
    /\ (tables # <<>> \/ search_term # <<>>)

EnterSearch ==
    /\ app = "dhl" /\ pc = "idle"
    /\ SearchRendered
    /\ \E term \in Terms(MaxTermLen) : StartRun(page, term, FALSE, <<>>)
    /\ trigger' = "text_input"

\* ChangeWidget with the new selection sent to the API at once
ChangeWidget_submits ==
    /\ app = "dhl" /\ pc = "idle"
    /\ StartRun(page, search_term, TRUE, <<>>)
    /\ trigger' = "selectbox"

\* a selectbox or the sidebar filter changes: the script reruns
ChangeWidget ==
    /\ app = "dhl" /\ pc = "idle"
    /\ StartRun(page, search_term, FALSE, <<>>)
    /\ trigger' = "selectbox"

\* the Update Shipment button, rendered when the update form is
ClickUpdate ==
    /\ app = "dhl" /\ pc = "idle"
    /\ page = "Shipments" /\ card # <<>>
    /\ StartRun(page, search_term, TRUE, <<>>)
    /\ trigger' = "Update Shipment"

(* ========================= specification ================================ *)

Init ==
    /\ app \in { "app.py", "dhl" }
    /\ pc = (IF app = "dhl" THEN "run" ELSE "idle")
    /\ req = <<>>
    /\ last = <<>>
    /\ net = <<>>
    /\ page = (IF app = "dhl" THEN "Dashboard" ELSE "")
    /\ fetched = <<>>
    /\ search_term = <<>>
    /\ messages = <<>>
    /\ card = <<>>
    /\ clicked = FALSE
    /\ trigger = ""
    /\ status_class = ""
    /\ tables = <<>>
    /\ metrics = <<>>
    /\ charts = <<>>

Next ==
    \/ SubmitCustomer
    \/ SubmitParcel
    \/ SubmitStatus
    \/ CustomerResponse
    \/ ParcelResponse
    \/ StatusResponse
    \/ Rerun
    \/ SelectPage
    \/ EnterSearch
    \/ ChangeWidget
    \/ ClickUpdate
    \/ DashboardSummary
    \/ DashboardStatusCounts
    \/ DashboardEfficiency
    \/ DashboardRecent
    \/ ShipmentsTab1
    \/ ShipmentsTab2
    \/ ShipmentPut
    \/ CustomersList
    \/ CustomerDetail
    \/ ParcelsList
    \/ AnalyticsShipments
    \/ AnalyticsEfficiency
    \/ RouteActive
    \/ RouteLocations

Spec == Init /\ [][Next]_vars

(* ============================== claims ================================== *)

\* a call made by a form (or by the Update Shipment button) has just ended
CallEnded == last # <<>>
LastReq == last[1].req
LastResponse == last[1].response

\* the response carries a 2xx status code
Is2xx(response) ==
    ~response.transport /\ response.code >= 200 /\ response.code < 300

\* the Parcel Tracking tab got status 200 and the JSON of a parcel whose
\* Status is a string
TrackedParcel ==
    /\ app = "app.py" /\ CallEnded
    /\ LastReq.path = "/parcels/{id}"
    /\ ~LastResponse.transport /\ LastResponse.code = 200
    /\ LastResponse.body.shape = "entity"
    /\ LastResponse.body.value.Status.t = "str"

\* the status string of the tracked parcel, lowercased
TrackedStatus == lower(LastResponse.body.value.Status.v)

\* C1: whenever a tracked parcel has been rendered, its badge is Delivered
\* exactly when the lowercased status equals "delivered", otherwise InTransit
\* exactly when it contains "transit", otherwise Processing.
C1_Classifier ==
    TrackedParcel =>
        /\ card = <<LastResponse.body.value>>
        /\ (status_class = "status-delivered") <=> (TrackedStatus = delivered)
        /\ (status_class = "status-transit") <=>
               (TrackedStatus # delivered /\ Contains(TrackedStatus, transit))
        /\ (status_class = "status-processing") <=>
               (TrackedStatus # delivered /\ ~Contains(TrackedStatus, transit))

\* "out for transit hub" has been rendered as InTransit
C1_Witness ==
    /\ TrackedParcel
    /\ LastResponse.body.value.Status.v =
         <<"o", "u", "t", " ", "f", "o", "r", " ", "t", "r", "a", "n", "s", "i", "t", " ", "h", "u", "b">>
    /\ status_class = "status-transit"

\* C2: the classifier is total on strings: whatever string the Status of a
\* tracked parcel is, the handler raises nothing, the card is rendered and the
\* badge carries exactly one of the three classes.
C2_Total ==
    TrackedParcel =>
        /\ status_class \in StatusClasses
        /\ messages = <<>>
        /\ card # <<>>

\* the unrecognised status "unknown-xyz" has been rendered, as Processing
C2_Witness ==
    /\ TrackedParcel
    /\ LastResponse.body.value.Status.v =
         <<"u", "n", "k", "n", "o", "w", "n", "-", "x", "y", "z">>
    /\ status_class = "status-processing"
    /\ messages = <<>>

\* the status of the tracked parcel contains both words
BothWords ==
    /\ TrackedParcel
    /\ Contains(TrackedStatus, delivered)
    /\ Contains(TrackedStatus, transit)

\* C3 as stated: a status that contains both "delivered" and "transit" is
\* classified Delivered, the delivered check being evaluated first.
C3_DeliveredWins == BothWords => status_class = "status-delivered"

\* C3 as amended: a status that contains both words is no exact match of
\* "delivered" and is classified InTransit; the two conditions of the code
\* never hold together, so the order of the checks decides nothing.
C3_BothWordsInTransit ==
    /\ BothWords => (TrackedStatus # delivered /\ status_class = "status-transit")
    /\ TrackedParcel => ~(TrackedStatus = delivered /\ Contains(TrackedStatus, transit))
    /\ (TrackedParcel /\ TrackedStatus = delivered) => status_class = "status-delivered"

\* "Delivered to transit hub" has been rendered, as InTransit
C3_Witness ==
    /\ BothWords
    /\ LastResponse.body.value.Status.v =
         <<"D", "e", "l", "i", "v", "e", "r", "e", "d", " ", "t", "o", " ", "t", "r", "a", "n", "s", "i", "t", " ", "h", "u", "b">>
    /\ status_class = "status-transit"

\* a message box of a kind is shown
Shown(kinds) == \E i \in 1..Len(messages) : messages[i].kind \in kinds

\* The boxes that the call that just ended has shown: all of them for a form
\* of app.py, the last one for the Update Shipment button (the boxes before
\* it are those of the fetches of the same run).
OutcomeShown(kinds) ==
    LET own == IF app = "dhl" THEN SubSeq(messages, Len(messages), Len(messages))
               ELSE messages
    IN  \E i \in 1..Len(own) : own[i].kind \in kinds

\* the body of the response holds what the call asked for: the JSON of the
\* customer or of a parcel with a string Status for a GET, anything for a PUT
BodyAsAskedFor ==
    \/ LastReq.method = "PUT"
    \/ /\ LastResponse.body.shape = "entity"
       /\ (LastReq.path = "/parcels/{id}" => LastResponse.body.value.Status.t = "str")

\* C4 as stated: a call whose response carries any 2xx status code is a
\* success: a GET renders the parsed body, a PUT shows the confirmation, and
\* no error is shown.
C4_Any2xxIsSuccess ==
    (CallEnded /\ Is2xx(LastResponse) /\ BodyAsAskedFor) =>
        /\ ~OutcomeShown({ "error", "exception" })
        /\ (LastReq.method = "GET" => card = <<LastResponse.body.value>>)
        /\ (LastReq.method = "PUT" => OutcomeShown({ "success" }))

\* the texts of the dedicated not-found messages
NotFoundTexts == { <<"Customer not found">>, <<"Parcel not found">> }

\* the call ended with a response of status 404
Got404 == CallEnded /\ ~LastResponse.transport /\ LastResponse.code = 404

\* C5 as stated: for every call, GET and PUT alike, a 404 response is
\* reported with the not-found message.
C5_404IsNotFound ==
    Got404 => (Len(messages) = 1 /\ messages[1].text \in NotFoundTexts)

\* C5 as amended: the two GET forms of app.py report a 404, and nothing but a
\* 404, with their not-found message; the PUT form of app.py reports a 404
\* through the branch of every other non-200 status; the dashboard program
\* reports every failure, a 404 included, through one branch and has no
\* not-found message at all.
C5_404ByWorkflow ==
    /\ (app = "app.py" /\ CallEnded /\ LastReq.method = "GET") =>
          /\ Got404 => messages =
                 <<Error(<<IF LastReq.path = "/customers/{id}"
                           THEN "Customer not found" ELSE "Parcel not found">>)>>
          /\ ~Got404 => \A i \in 1..Len(messages) : messages[i].text \notin NotFoundTexts
    /\ (app = "app.py" /\ Got404 /\ LastReq.method = "PUT") =>
          /\ Len(messages) = 1
          /\ messages[1].kind \in { "error", "exception" }
          /\ messages[1].text \notin NotFoundTexts
          /\ (messages[1].kind = "error" =>
                messages[1].text[1] \in { "Error: ", "Connection error: " })
    /\ (app = "dhl" /\ Got404) =>
          messages[Len(messages)] =
              Error(<<"Error updating shipment: ", "404 Client Error: Not Found">>)
    /\ app = "dhl" =>
          \A i \in 1..Len(messages) :
              /\ messages[i].text \notin NotFoundTexts
              /\ (messages[i].kind = "error" =>
                    messages[i].text[1] \in { "Error fetching data from API: ",
                                              "Error updating shipment: " })

\* the customer form got a 404 and shows "Customer not found"
C5_Witness ==
    /\ app = "app.py" /\ Got404
    /\ LastReq.path = "/customers/{id}"
    /\ messages = <<Error(<<"Customer not found">>)>>

\* the call ended with a response whose status is neither 2xx nor 404 and
\* whose body is a JSON object or no JSON at all
GotOtherError ==
    /\ CallEnded /\ ~LastResponse.transport
    /\ ~Is2xx(LastResponse) /\ LastResponse.code # 404
    /\ LastResponse.body.shape \in { "object", "notjson" }

\* C6 as stated: a non-2xx response other than 404 is reported as a server
\* error carrying the detail field of its JSON body when there is one and a
\* generic message otherwise, and never as a connection failure.
C6_ServerErrorDetail ==
    GotOtherError =>
        /\ Len(messages) >= 1
        /\ LET m == messages[Len(messages)]
           IN  /\ m.kind = "error"
               /\ m.text[1] # "Connection error: "
               /\ (LastResponse.body.shape = "object" /\ LastResponse.body.hasDetail)
                     => m.text[Len(m.text)] = LastResponse.body.detail

\* an update call (PUT) ended in an error: no response, or a non-2xx one
UpdateFailed ==
    /\ CallEnded /\ LastReq.method = "PUT"
    /\ (LastResponse.transport \/ ~Is2xx(LastResponse))

C8_AcceptedUpdateRefreshes ==
    /\ (CallEnded /\ LastReq.method = "PUT" /\ Is2xx(LastResponse)) =>
          /\ OutcomeShown({ "success" })
          /\ (app = "dhl" => pc = "run")
    /\ \A i \in 1..(Len(net) - 1) :
          net[i].method = "PUT" =>
              net[i + 1] = [method |-> "GET", path |-> "/shipments{status_param}"]

\* str.contains with the term taken literally, case-insensitively
literal_contains(s, term) == Contains(lower(s), lower(term))

\* C9 as stated: once the list of a table page is fetched and not empty, the
\* table shows exactly the records whose designated fields contain the search
\* term as a case-insensitive literal substring, in their order (all of them
\* for an empty term).
C9_LiteralSubstringFilter ==
    (/\ app = "dhl" /\ page \in { "Shipments", "Customers", "Parcels" }
     /\ fetched # <<>> /\ Truthy(fetched[1])) =>
        /\ tables # <<>>
        /\ LET rows == fetched[1].data
               keep == [i \in 1..Len(rows) |->
                          CASE page = "Shipments" ->
                                 \/ literal_contains(rows[i].ShipmentName, search_term)
                                 \/ literal_contains(rows[i].CustomerName, search_term)
                            [] page = "Customers" ->
                                 \/ literal_contains(rows[i].Name, search_term)
                                 \/ literal_contains(rows[i].Email, search_term)
                            [] OTHER ->
                                 /\ literal_contains(rows[i].ParcelName, search_term)
                                 /\ tables[1].type_filter \in { "All", rows[i].Type }]
           IN  tables[1].rows = SelectRows(rows, keep, 1)

\* the data of the chart of a name, when the page shows one
ChartsNamed(name) == { i \in 1..Len(charts) : charts[i].name = name }

\* a metric card or a radar trace is on display
ShowsAggregates == app = "dhl" /\ page \in { "Dashboard", "Analytics" } /\ metrics # <<>>

\* C10 as stated: every value of a metric card or chart is a value received
\* from the API, unchanged.
C10_NoAggregation ==
    /\ (ShowsAggregates /\ page = "Analytics") =>
          LET rows == fetched[1].data
              received == UNION { { rows[i].Efficiency, rows[i].CustomerRating,
                                    rows[i].Delays } : i \in 1..Len(rows) }
          IN  \A k \in 1..Len(metrics) : \E v \in received : metrics[k].tenths = 10 * v
    /\ (app = "dhl" /\ page = "Analytics") =>
          \A c \in ChartsNamed("radar") :
              LET rows == fetched[2].data
                  received == UNION { { rows[i].averageEfficiency, rows[i].averageRating }
                                        : i \in 1..Len(rows) }
              IN  \A t \in 1..Len(charts[c].data) :
                      \A k \in 1..Len(charts[c].data[t].r) :
                          charts[c].data[t].r[k] \in received

Abs(x) == IF x < 0 THEN -x ELSE x

\* C10 as amended: the Dashboard passes on what it receives (the four counts
\* of the summary, the status counts, the efficiency by parcel type), but the
\* Analytics page aggregates: its cards show the mean Efficiency and the mean
\* CustomerRating of the received records rounded to one decimal and the sum
\* of their Delays, and its radar chart plots averageEfficiency,
\* averageRating * 20 and 100 - averageEfficiency.
C10_DashboardPassesAnalyticsAggregates ==
    /\ (ShowsAggregates /\ page = "Dashboard") =>
          LET summary == fetched[1].data[1]
          IN  /\ Len(metrics) = 4
              /\ metrics[1].tenths = 10 * summary.total_shipments
              /\ metrics[2].tenths = 10 * summary.active_shipments
              /\ metrics[3].tenths = 10 * summary.delayed_shipments
              /\ metrics[4].tenths = 10 * summary.completed_shipments
              /\ \A k \in 1..4 : metrics[k].format = "d"
              /\ \A c \in ChartsNamed("pie") : charts[c].data = fetched[2].data
              /\ \A c \in ChartsNamed("bar") : charts[c].data = fetched[3].data
    /\ (ShowsAggregates /\ page = "Analytics") =>
          LET rows == fetched[1].data
              n == Len(rows)
              total_efficiency == SumOf([i \in 1..n |-> rows[i].Efficiency], 1)
              total_rating == SumOf([i \in 1..n |-> rows[i].CustomerRating], 1)
              total_delays == SumOf([i \in 1..n |-> rows[i].Delays], 1)
          IN  /\ Len(metrics) = 3
              /\ 2 * Abs(10 * total_efficiency - n * metrics[1].tenths) <= n
              /\ 2 * Abs(10 * total_rating - n * metrics[2].tenths) <= n
              /\ metrics[3].tenths = 10 * total_delays
              /\ \A c \in ChartsNamed("scatter") : charts[c].data = rows
              /\ \A c \in ChartsNamed("radar") :
                     LET eff == fetched[2].data
                     IN  /\ Len(charts[c].data) = Len(eff)
                         /\ \A t \in 1..Len(eff) :
                                charts[c].data[t].r =
                                    << eff[t].averageEfficiency,
                                       eff[t].averageRating * 20,
                                       100 - eff[t].averageEfficiency >>

\* the Analytics page shows the mean 82.5 of the efficiencies 80 and 85, which
\* the API never sent, and a radar chart
C10_Witness ==
    /\ ShowsAggregates /\ page = "Analytics" /\ pc = "idle"
    /\ Len(fetched[1].data) = 2
    /\ metrics[1].tenths = 825
    /\ ChartsNamed("radar") # {}

\* a script run of the dashboard program has ended without an exception
RunEnded ==
    /\ app = "dhl" /\ pc = "idle"
    /\ \A i \in 1..Len(messages) : messages[i].kind # "exception"

\* the fetches of this run for an endpoint
FetchesOf(endpoint) == { i \in 1..Len(fetched) : fetched[i].endpoint = endpoint }

\* the sections of each page that depend on one fetch only, by the endpoint
\* they depend on
IndependentSections(p) ==
    CASE p = "Dashboard" ->
           { "/dashboard/summary", "/analytics/shipment-status-count",
             "/analytics/efficiency-by-parcel-type", "/shipments?limit=5" }
      [] p = "Shipments" -> { "/shipments{status_param}", "/shipments" }
      [] p = "Customers" -> { "/customers" }
      [] p = "Parcels" -> { "/parcels" }
      [] p = "Analytics" ->
           { "/analytics/shipments", "/analytics/efficiency-by-parcel-type" }
      [] OTHER -> {}

\* the section that depends on the fetch of an endpoint is on display
Rendered(endpoint) ==
    CASE endpoint = "/dashboard/summary" -> metrics # <<>>
      [] endpoint = "/analytics/shipment-status-count" -> ChartsNamed("pie") # {}
      [] endpoint = "/analytics/efficiency-by-parcel-type" ->
           IF page = "Dashboard" THEN ChartsNamed("bar") # {}
           ELSE ChartsNamed("radar") # {}
      [] endpoint = "/shipments?limit=5" ->
           \E i \in 1..Len(tables) : tables[i].name = "recent"
      [] endpoint = "/shipments{status_param}" ->
           \E i \in 1..Len(tables) : tables[i].name = "shipments"
      [] endpoint = "/shipments" -> card # <<>>
      [] endpoint = "/customers" ->
           \E i \in 1..Len(tables) : tables[i].name = "customers"
      [] endpoint = "/customers/{id}" -> card # <<>>
      [] endpoint = "/parcels" ->
           \E i \in 1..Len(tables) : tables[i].name = "parcels"
      [] endpoint = "/analytics/shipments" ->
           metrics # <<>> /\ ChartsNamed("scatter") # {}
      [] OTHER -> ChartsNamed("routes") # {}

\* C11 as stated: the fetches of a page are independent: when a run in which
\* a fetch failed has ended, each section that depends on one fetch has had
\* its fetch made, whatever the other fetches of the page returned, and is on
\* display when that fetch returned data.
C11_PartialFailureIsolated ==
    (RunEnded /\ \E i \in 1..Len(fetched) : fetched[i].none) =>
        \A endpoint \in IndependentSections(page) :
            /\ FetchesOf(endpoint) # {}
            /\ \A i \in FetchesOf(endpoint) :
                   Truthy(fetched[i]) => Rendered(endpoint)

\* the update requests sent since the last user interaction
Puts == { i \in 1..Len(net) : net[i].method = "PUT" }

\* the submit buttons of the two update forms
UpdateButtons == { "Update Status", "Update Shipment" }

\* the run that the user's last interaction started, and the rerun that a
\* confirmed update asks for, are over
Settled == pc = "idle"

\* C12 as stated: an update request is sent only in answer to a submit button,
\* never to another widget; once the script is idle again, a submit has sent
\* exactly one PUT, whatever the outcome, and never more than one is sent.
C12_EverySubmitSendsOnePut ==
    /\ Puts # {} => trigger \in UpdateButtons
    /\ Cardinality(Puts) <= 1
    /\ (Settled /\ trigger \in UpdateButtons) => Cardinality(Puts) = 1

\* C12 as amended: an update request is sent only in answer to a submit
\* button, and never more than one, a failed one not being sent again.  The
\* Update Status form sends its PUT with the submit itself.  The Update
\* Shipment button starts a run that fetches both shipment lists first: it
\* sends its PUT when the list of the update tab arrives with data, and none
\* when that fetch returns nothing, which ends the run.
C12_SubmitSendsAtMostOnePut ==
    /\ Puts # {} => trigger \in UpdateButtons
    /\ Cardinality(Puts) <= 1
    /\ (trigger = "Update Status") => Cardinality(Puts) = 1
    /\ (Settled /\ trigger = "Update Shipment") =>
          \/ Cardinality(Puts) = 1
          \/ /\ Len(fetched) = 2
             /\ fetched[2].endpoint = "/shipments"
             /\ ~Truthy(fetched[2])
    /\ (trigger = "Update Shipment" /\ clicked /\ Len(fetched) = 2) =>
          (Truthy(fetched[2]) <=> pc = "put")
    /\ (UpdateFailed /\ Settled) => (Puts # {} /\ \A i \in Puts : i = Len(net))

\* the Update Shipment button was clicked, its PUT got a 500 and the script
\* is idle with that PUT the last and only one sent
C12_Witness ==
    /\ trigger = "Update Shipment" /\ Settled
    /\ UpdateFailed /\ ~LastResponse.transport /\ LastResponse.code = 500
    /\ Cardinality(Puts) = 1
    /\ net[Len(net)].method = "PUT"

\* the classifier with its two checks in the other order: transit first
transit_checked_first(Status) ==
    IF Status.t # "str" THEN "AttributeError"
    ELSE IF Contains(lower(Status.v), transit) THEN "status-transit"
    ELSE IF lower(PyStr(Status)) = delivered THEN "status-delivered"
    ELSE "status-processing"

\* C13: no status both equals "delivered" after lowercasing and contains
\* "transit", so the badge of every tracked parcel is the one the classifier
\* would give with the transit check evaluated first; a status that has both
\* words, as "Delivered to transit hub", is InTransit under either order.
C13_OrderOfChecksIrrelevant ==
    TrackedParcel =>
        /\ ~(TrackedStatus = delivered /\ Contains(TrackedStatus, transit))
        /\ status_class = transit_checked_first(LastResponse.body.value.Status)
        /\ status_class_of(LastResponse.body.value.Status) =
               transit_checked_first(LastResponse.body.value.Status)
        /\ BothWords =>
               /\ status_class = "status-transit"
               /\ transit_checked_first(LastResponse.body.value.Status) = "status-transit"

\* "Delivered to transit hub" has been tracked and both orders of the checks
\* give InTransit
C13_Witness ==
    /\ TrackedParcel
    /\ TrackedStatus = lower(<<"D", "e", "l", "i", "v", "e", "r", "e", "d", " ", "t", "o", " ", "t", "r", "a", "n", "s", "i", "t", " ", "h", "u", "b">>)
    /\ LastResponse.body.value.Status.v[1] = "D"
    /\ status_class = "status-transit"
    /\ transit_checked_first(LastResponse.body.value.Status) = "status-transit"

\* the boxes on display other than the outcome of an update request
FetchBoxes ==
    { i \in 1..Len(messages) :
        /\ messages[i].kind \in { "error", "exception" }
        /\ messages[i].text[1] # "Error updating shipment: " }

\* what the section of the i-th fetch of this run depends on has arrived with
\* data: its own fetch, and on the Route Visualization page both fetches
DataArrived(i) ==
    IF page = "Route Visualization"
    THEN \A j \in 1..Len(fetched) : Truthy(fetched[j])
    ELSE Truthy(fetched[i])

\* C14 as stated: when a run of the dashboard program has ended, the section
\* of each fetch made is on display exactly when the fetch returned a
\* non-empty value, and an error box is on display exactly when a fetch
\* failed; a fetch that returned an empty value skips its section silently.
C14_RenderedIffData ==
    (app = "dhl" /\ pc = "idle") =>
        /\ \A i \in 1..Len(fetched) :
               Rendered(fetched[i].endpoint) <=> DataArrived(i)
        /\ (FetchBoxes # {}) <=> (\E i \in 1..Len(fetched) : fetched[i].none)

====
